---- MODULE Spec2Model ----
(***************************************************************************)
(* Model of the accident predictor of Artpdro/safeways:                    *)
(*   src/preditor_ofc.py   AccidentPredictor (aggregation, features,       *)
(*                         treinar, salvar_modelo, prever)                 *)
(*   src/interface.py      load_model                                      *)
(*   src/data_generator.py module-level artifact loading and               *)
(*                         _criar_features_para_previsao                   *)
(* Texts are TLA+ strings; floats are exact rationals <<num, den>>; a      *)
(* standard deviation is kept as the rational variance under a root.       *)
(***************************************************************************)
EXTENDS Integers, Sequences, FiniteSets, TLC

VARIABLES
    pred,       \* the AccidentPredictor object the process holds
    disco,      \* the file modelo_acidentes.pkl
    gerador,    \* the module globals of data_generator
    ult,        \* the last call: its name, its outcome and what it computed
    treinos     \* how many times the run has called treinar

vars == <<pred, disco, gerador, ult, treinos>>

(***************************************************************************)
(* Texts                                                                   *)
(***************************************************************************)

\* Python None of a text cell.
Nulo == "<NA>"

\* NaT of a timestamp cell and NaN of an hour cell.
NaT == <<0, 0, 0>>
NaN == -1

\* The ASCII characters of the model's texts in code-point order.
Alfabeto == " /0123456789:ABCDEFGHIJKLMNOPQRSTUVWXYZabcdefghijklmnopqrstuvwxyz"

\* Code-point rank of a one-character text; non-ASCII sorts after ASCII.
CharOrd(c) ==
    IF \E i \in 1..Len(Alfabeto) : SubSeq(Alfabeto, i, i) = c
    THEN CHOOSE i \in 1..Len(Alfabeto) : SubSeq(Alfabeto, i, i) = c
    ELSE Len(Alfabeto) + 1

Min2(a, b) == IF a <= b THEN a ELSE b
Max2(a, b) == IF a >= b THEN a ELSE b

\* Python's str < str (lexicographic by code point).
StrLess(a, b) ==
    LET n == Min2(Len(a), Len(b))
        difs == {i \in 1..n : SubSeq(a, i, i) # SubSeq(b, i, i)}
    IN  IF difs = {}
        THEN Len(a) < Len(b)
        ELSE LET i == CHOOSE j \in difs : \A k \in difs : j <= k
             IN  CharOrd(SubSeq(a, i, i)) < CharOrd(SubSeq(b, i, i))

\* Python's `k in cond` for two texts.
Contains(cond, k) ==
    \E i \in 1..(Len(cond) - Len(k) + 1) : SubSeq(cond, i, i + Len(k) - 1) = k

\* The sorted sequence of the members of a set of texts (np.unique / sorted).
RECURSIVE SortTexts(_)
SortTexts(S) ==
    IF S = {} THEN <<>>
    ELSE LET m == CHOOSE x \in S : \A y \in S \ {x} : StrLess(x, y)
         IN  <<m>> \o SortTexts(S \ {m})

SeqToSet(s) == {s[i] : i \in 1..Len(s)}

(***************************************************************************)
(* Weather normalizer                                                      *)
(***************************************************************************)

\* The same rules without the keyword "Bom".
SimplificarClimaSemBom(cond) ==
    IF Contains(cond, "Chuva") \/ Contains(cond, "Garoa") THEN "Chuva"
    ELSE IF Contains(cond, "Nublado") THEN "Nublado"
    ELSE IF Contains(cond, "Céu Claro") \/ Contains(cond, "Sol") THEN "Bom"
    ELSE IF Contains(cond, "Vento") THEN "Vento"
    ELSE IF Contains(cond, "Nevoeiro") \/ Contains(cond, "Neblina") THEN "Nevoeiro/Neblina"
    ELSE "Outro"

\* The same rules with the cloudy rule tried before the rain rule.
SimplificarClimaNubladoPrimeiro(cond) ==
    IF Contains(cond, "Nublado") THEN "Nublado"
    ELSE IF Contains(cond, "Chuva") \/ Contains(cond, "Garoa") THEN "Chuva"
    ELSE IF Contains(cond, "Céu Claro") \/ Contains(cond, "Sol") \/ Contains(cond, "Bom")
         THEN "Bom"
    ELSE IF Contains(cond, "Vento") THEN "Vento"
    ELSE IF Contains(cond, "Nevoeiro") \/ Contains(cond, "Neblina") THEN "Nevoeiro/Neblina"
    ELSE "Outro"

\* AccidentPredictor._simplificar_clima
SimplificarClima(cond) ==
    IF Contains(cond, "Chuva") \/ Contains(cond, "Garoa") THEN "Chuva"
    ELSE IF Contains(cond, "Nublado") THEN "Nublado"
    ELSE IF Contains(cond, "Céu Claro") \/ Contains(cond, "Sol") \/ Contains(cond, "Bom")
         THEN "Bom"
    ELSE IF Contains(cond, "Vento") THEN "Vento"
    ELSE IF Contains(cond, "Nevoeiro") \/ Contains(cond, "Neblina") THEN "Nevoeiro/Neblina"
    ELSE "Outro"

\* data_generator._simplificar_clima
GeradorSimplificarClima(cond) ==
    IF Contains(cond, "Chuva") \/ Contains(cond, "Garoa") THEN "Chuva"
    ELSE IF Contains(cond, "Nublado") THEN "Nublado"
    ELSE IF Contains(cond, "Céu Claro") \/ Contains(cond, "Sol") THEN "Bom"
    ELSE IF Contains(cond, "Vento") THEN "Vento"
    ELSE IF Contains(cond, "Nevoeiro") \/ Contains(cond, "Neblina") THEN "Nevoeiro/Neblina"
    ELSE "Outro"

(***************************************************************************)
(* Rationals                                                               *)
(***************************************************************************)

Abs(x) == IF x < 0 THEN -x ELSE x

RECURSIVE Gcd(_, _)
Gcd(a, b) == IF b = 0 THEN a ELSE Gcd(b, a % b)

\* The rational n/d (d > 0) in lowest terms.
Rat(n, d) == LET g == Gcd(Abs(n), d) IN <<n \div g, d \div g>>

Zero == <<0, 1>>

(***************************************************************************)
(* Dates and times                                                         *)
(***************************************************************************)

IsDigits(s) == Len(s) > 0 /\ \A i \in 1..Len(s) : Contains("0123456789", SubSeq(s, i, i))

Digit(c) == (CHOOSE i \in 1..10 : SubSeq("0123456789", i, i) = c) - 1

RECURSIVE ToInt(_)
ToInt(s) == IF Len(s) = 0 THEN 0
            ELSE 10 * ToInt(SubSeq(s, 1, Len(s) - 1)) + Digit(SubSeq(s, Len(s), Len(s)))

\* The positions of separator sep in text s.
SepPos(s, sep) == {i \in 1..Len(s) : SubSeq(s, i, i) = sep}

Bissexto(y) == (y % 4 = 0 /\ y % 100 # 0) \/ y % 400 = 0

DiasNoMes(m, y) ==
    IF m = 2 THEN (IF Bissexto(y) THEN 29 ELSE 28)
    ELSE IF m \in {4, 6, 9, 11} THEN 30 ELSE 31

\* pd.to_datetime(text, format="%d/%m/%Y", errors="coerce"): a date
\* <<year, month, day>>, or NaT when the text does not parse.
ParseData(s) ==
    IF s = Nulo THEN NaT
    ELSE LET ps == SepPos(s, "/") IN
         IF Cardinality(ps) # 2 THEN NaT
         ELSE LET p1 == CHOOSE p \in ps : \A q \in ps : p <= q
                  p2 == CHOOSE p \in ps : \A q \in ps : p >= q
                  ds == SubSeq(s, 1, p1 - 1)
                  ms == SubSeq(s, p1 + 1, p2 - 1)
                  ys == SubSeq(s, p2 + 1, Len(s))
              IN  IF ~(IsDigits(ds) /\ IsDigits(ms) /\ IsDigits(ys)) THEN NaT
                  ELSE IF Len(ds) > 2 \/ Len(ms) > 2 \/ Len(ys) # 4 THEN NaT
                  ELSE LET d == ToInt(ds)
                           m == ToInt(ms)
                           y == ToInt(ys)
                       IN  IF m \in 1..12 /\ d >= 1 /\ d <= DiasNoMes(m, y)
                           THEN <<y, m, d>>
                           ELSE NaT

\* pd.to_datetime(text, format="%H:%M:%S", errors="coerce").dt.hour: the
\* hour, or NaN when the text does not parse.
ParseHora(s) ==
    IF s = Nulo THEN NaN
    ELSE LET ps == SepPos(s, ":") IN
         IF Cardinality(ps) # 2 THEN NaN
         ELSE LET p1 == CHOOSE p \in ps : \A q \in ps : p <= q
                  p2 == CHOOSE p \in ps : \A q \in ps : p >= q
                  hs == SubSeq(s, 1, p1 - 1)
                  ms == SubSeq(s, p1 + 1, p2 - 1)
                  ss == SubSeq(s, p2 + 1, Len(s))
              IN  IF ~(IsDigits(hs) /\ IsDigits(ms) /\ IsDigits(ss)) THEN NaN
                  ELSE IF Len(hs) > 2 \/ Len(ms) > 2 \/ Len(ss) > 2 THEN NaN
                  ELSE IF ToInt(hs) <= 23 /\ ToInt(ms) <= 59 /\ ToInt(ss) <= 61
                       THEN ToInt(hs)
                       ELSE NaN

\* Timestamp order.
DataLess(a, b) ==
    \/ a[1] < b[1]
    \/ a[1] = b[1] /\ a[2] < b[2]
    \/ a[1] = b[1] /\ a[2] = b[2] /\ a[3] < b[3]

(***************************************************************************)
(* Calendar features                                                       *)
(***************************************************************************)

\* Timestamp.dayofyear
DiaAno(dt) ==
    LET RECURSIVE Antes(_)
        Antes(m) == IF m = 0 THEN 0 ELSE DiasNoMes(m, dt[1]) + Antes(m - 1)
    IN  Antes(dt[2] - 1) + dt[3]

\* Proleptic Gregorian ordinal (0001-01-01 is 1, a Monday).
Ordinal(dt) ==
    LET y == dt[1] - 1
    IN  365 * y + (y \div 4) - (y \div 100) + (y \div 400) + DiaAno(dt)

\* Timestamp.dayofweek: Monday is 0.
DiaSemana(dt) == (Ordinal(dt) + 6) % 7

SemanasNoAno(y) ==
    LET p(z) == (z + (z \div 4) - (z \div 100) + (z \div 400)) % 7
    IN  IF p(y) = 4 \/ p(y - 1) = 3 THEN 53 ELSE 52

SemanaDe(y, w) ==
    IF w < 1 THEN SemanasNoAno(y - 1)
    ELSE IF w > SemanasNoAno(y) THEN 1
    ELSE w

\* Timestamp.isocalendar().week
SemanaIso(dt) == SemanaDe(dt[1], (DiaAno(dt) - (DiaSemana(dt) + 1) + 10) \div 7)

\* The month and day of Easter Sunday from the Gregorian computus terms
\* h, l and m.
PascoaDe(y, h, l, m) ==
    <<y, (h + l - 7 * m + 114) \div 31, ((h + l - 7 * m + 114) % 31) + 1>>

PascoaM(y, a, h, l) == PascoaDe(y, h, l, (a + 11 * h + 22 * l) \div 451)

PascoaL(y, a, b, c, h) ==
    PascoaM(y, a, h, (32 + 2 * (b % 4) + 2 * (c \div 4) - h - (c % 4)) % 7)

PascoaH(y, a, b, c, f) ==
    PascoaL(y, a, b, c, (19 * a + b - (b \div 4) - ((b - f + 1) \div 3) + 15) % 30)

\* Easter Sunday of year y as <<y, month, day>>.
Pascoa(y) == PascoaH(y, y % 19, y \div 100, y % 100, ((y \div 100) + 8) \div 25)

\* `x in holidays.Brazil()`: the national holidays (fixed dates and Good Friday).
Feriado(dt) ==
    \/ <<dt[3], dt[2]>> \in {<<1, 1>>, <<21, 4>>, <<1, 5>>, <<7, 9>>, <<12, 10>>,
                             <<2, 11>>, <<15, 11>>, <<25, 12>>}
    \/ Ordinal(dt) = Ordinal(Pascoa(dt[1])) - 2

Bool2Int(b) == IF b THEN 1 ELSE 0

\* The calendar columns from a date's weekday, day of year, ISO week and
\* holiday flag.
CalendarioDe(dt, ds, da, sem, fer) ==
    [ano |-> dt[1],
     mes |-> dt[2],
     dia_semana |-> ds,
     dia_ano |-> da,
     semana |-> sem,
     fim_semana |-> Bool2Int(ds >= 5),
     feriado |-> fer,
     feriado_fim_semana |-> fer * Bool2Int(ds >= 5),
     dia_semana_sin |-> <<"sin", ds, 7>>,
     dia_semana_cos |-> <<"cos", ds, 7>>,
     dia_ano_sin |-> <<"sin", 4 * da, 1461>>,
     dia_ano_cos |-> <<"cos", 4 * da, 1461>>]

\* The calendar columns _criar_features derives from the data column.
Calendario(dt) ==
    CalendarioDe(dt, DiaSemana(dt), DiaAno(dt), SemanaIso(dt), Bool2Int(Feriado(dt)))

(***************************************************************************)
(* Daily aggregation                                                       *)
(***************************************************************************)

\* The first year whose records are kept.
AnoMinimo == 2019

\* The positions of a sorted sequence that start a run of equal values, and
\* the values at them.
Primeiras(ord) ==
    SelectSeq([i \in 1..Len(ord) |-> i], LAMBDA i : i = 1 \/ ord[i] # ord[i - 1])
Nas(ord, idx) == [k \in 1..Len(idx) |-> ord[idx[k]]]
Distintas(ord) == Nas(ord, Primeiras(ord))

\* The dates of s in the order of s, runs of equal dates taken once.
SortDatasSemOrdenar(s) == Distintas(s)

\* The distinct dates of s in ascending order: the keys of groupby("data").
SortDatas(s) == Distintas(SortSeq(s, DataLess))

\* The values of S that occur most often in vals.
MaisFrequentes(vals, S) ==
    {v \in S : \A u \in S : Cardinality({i \in 1..Len(vals) : vals[i] = u})
                              <= Cardinality({i \in 1..Len(vals) : vals[i] = v})}

\* The most frequent value; among several, the first in vals.
ModaPrimeira(vals) ==
    vals[CHOOSE i \in 1..Len(vals) :
            /\ vals[i] \in MaisFrequentes(vals, SeqToSet(vals))
            /\ \A j \in 1..(i - 1) : vals[j] \notin MaisFrequentes(vals, SeqToSet(vals))]

\* Series.mode()[0]: the most frequent value; among several, the first in
\* sorted order.
Moda(vals) == SortTexts(MaisFrequentes(vals, SeqToSet(vals)))[1]

RECURSIVE Soma(_)
Soma(s) ==
    IF Len(s) = 0 THEN 0
    ELSE IF Len(s) = 1 THEN s[1]
    ELSE Soma(SubSeq(s, 1, Len(s) \div 2)) + Soma(SubSeq(s, Len(s) \div 2 + 1, Len(s)))

MapSeq(s, Op(_)) == [i \in 1..Len(s) |-> Op(s[i])]

RawCampos == {"data_inversa", "horario", "uf", "municipio", "tipo_acidente",
              "condicao_metereologica"}

\* Line 44: the data column, parsed from data_inversa.
ComData(regs) ==
    [i \in 1..Len(regs) |-> [data |-> ParseData(regs[i].data_inversa)] @@ regs[i]]

\* Line 45: the rows of AnoMinimo or later with none of the six fields missing.
ManterData(r) ==
    /\ r.data # NaT
    /\ r.data[1] >= AnoMinimo
    /\ \A c \in RawCampos \ {"data_inversa"} : r[c] # Nulo

\* Lines 46-47: the hora column, and the rows whose hora parsed.
ComHora(rs) == [i \in 1..Len(rs) |-> [hora |-> ParseHora(rs[i].horario)] @@ rs[i]]
\* Every row kept, whatever its hora.
ManterHoraSempre(r) == TRUE

\* Line 47: the rows whose hora parsed.
ManterHora(r) == r.hora # NaN

\* Line 48: the weather text replaced by its class.
ComClima(rs) ==
    [i \in 1..Len(rs) |->
        [rs[i] EXCEPT !.condicao_metereologica = SimplificarClima(@)]]

\* The records _processar_dados keeps, each with its parsed data and hora and
\* its simplified weather class.
Retidos(regs) ==
    ComClima(SelectSeq(ComHora(SelectSeq(ComData(regs), ManterData)), ManterHora))

Coluna(g, c) == [i \in 1..Len(g) |-> g[i][c]]

\* The aggregated row of the group g of records of date d.
LinhaDia(d, g) ==
    [data |-> d,
     acidentes |-> Len(g),
     uf |-> Moda(Coluna(g, "uf")),
     municipio |-> Moda(Coluna(g, "municipio")),
     tipo_acidente |-> Moda(Coluna(g, "tipo_acidente")),
     hora_media |-> Rat(Soma(Coluna(g, "hora")), Len(g)),
     clima |-> SimplificarClima(Moda(Coluna(g, "condicao_metereologica")))]

\* groupby("data").agg(...) over the kept records, the dates in order.
Agregar(kept, datas) ==
    [k \in 1..Len(datas) |-> LinhaDia(datas[k], SelectSeq(kept, LAMBDA r : r.data = datas[k]))]

DatasDe(kept) == SortDatas(Coluna(kept, "data"))

AgregarRetidos(kept) == Agregar(kept, DatasDe(kept))

\* AccidentPredictor._processar_dados: one row per date of the kept records,
\* sorted by date.
ProcessarDados(regs) == AgregarRetidos(Retidos(regs))

\* The columns of the aggregated frame.
AggCols == {"data", "acidentes", "uf", "municipio", "tipo_acidente", "hora_media", "clima"}


(***************************************************************************)
(* Feature builder                                                         *)
(***************************************************************************)

\* The lags and rolling windows of _criar_features.
Lags == <<1, 2, 7, 14>>
Janelas == <<7, 14, 28>>

\* The categorical columns, in the order of the encoding loop.
CatCols == <<"uf", "municipio", "tipo_acidente", "clima">>

\* The `features` list of _criar_features.
Features ==
    <<"ano", "mes", "dia_semana", "dia_ano", "semana", "fim_semana",
      "dia_semana_sin", "dia_semana_cos", "dia_ano_sin", "dia_ano_cos",
      "hora_media", "feriado", "feriado_fim_semana",
      "lag_1", "lag_2", "lag_7", "lag_14",
      "media_7", "media_14", "media_28",
      "std_7", "std_14", "std_28",
      "uf_enc", "municipio_enc", "tipo_acidente_enc", "clima_enc">>

LagNome(k) == CASE k = 1 -> "lag_1" [] k = 2 -> "lag_2" [] k = 7 -> "lag_7" [] k = 14 -> "lag_14"
MediaNome(w) == CASE w = 7 -> "media_7" [] w = 14 -> "media_14" [] w = 28 -> "media_28"
StdNome(w) == CASE w = 7 -> "std_7" [] w = 14 -> "std_14" [] w = 28 -> "std_28"
EncNome(c) == CASE c = "uf" -> "uf_enc" [] c = "municipio" -> "municipio_enc"
                [] c = "tipo_acidente" -> "tipo_acidente_enc" [] c = "clima" -> "clima_enc"

\* NaN of a float cell, and the root of a rational (a standard deviation).
NaNRat == <<0, 0>>
Raiz(q) == <<"sqrt", q[1], q[2]>>
RaizZero == Raiz(Zero)

\* Series.shift(k) of an integer column, as floats.
Shift(s, k) == [i \in 1..Len(s) |-> IF i > k THEN <<s[i - k], 1>> ELSE NaNRat]

\* The same over the w + 1 cells ending at i.
JanelaMaisUm(s, w, i) == SelectSeq(SubSeq(s, Max2(1, i - w), i), LAMBDA q : q # NaNRat)

\* The observations of .rolling(w) at row i: the non-NaN cells among the w
\* cells ending at i.
Janela(s, w, i) == SelectSeq(SubSeq(s, Max2(1, i - w + 1), i), LAMBDA q : q # NaNRat)

Numeradores(v) == [j \in 1..Len(v) |-> v[j][1]]
Quadrados(v) == [j \in 1..Len(v) |-> v[j][1] * v[j][1]]

\* The mean of the observations v, NaN below min_periods = 1 of them.
MediaDe(v) == IF Len(v) < 1 THEN NaNRat ELSE Rat(Soma(Numeradores(v)), Len(v))

\* .rolling(w, min_periods=1).mean() at row i.
RollMean(s, w, i) == MediaDe(Janela(s, w, i))

\* The sample variance (ddof = 1) from the number of observations, their sum
\* and the sum of their squares; NaN below two observations.
VarDe(n, s1, s2) == IF n < 2 THEN NaNRat ELSE Rat(n * s2 - s1 * s1, n * (n - 1))

VarObs(v) == VarDe(Len(v), Soma(Numeradores(v)), Soma(Quadrados(v)))

\* .rolling(w, min_periods=1).std() at row i, as the variance under the root.
RollStd(s, w, i) == VarObs(Janela(s, w, i))

\* A float cell left as it is.
FillNaSemEfeito(q) == q

\* df.fillna(0) on a float cell.
FillNa(q) == IF q = NaNRat THEN Zero ELSE q

\* Rolling statistics taken over the counts themselves, today's included.
RollBaseSemShift(ac) == Shift(ac, 0)

\* The series the rolling statistics are taken over: yesterday's counts.
RollBase(ac) == Shift(ac, 1)

\* The lag and rolling cells of row i of a frame with counts ac (after fillna).
LagRoll(ac, i) ==
    [lag_1 |-> FillNa(Shift(ac, 1)[i]),
     lag_2 |-> FillNa(Shift(ac, 2)[i]),
     lag_7 |-> FillNa(Shift(ac, 7)[i]),
     lag_14 |-> FillNa(Shift(ac, 14)[i]),
     media_7 |-> FillNa(RollMean(RollBase(ac), 7, i)),
     media_14 |-> FillNa(RollMean(RollBase(ac), 14, i)),
     media_28 |-> FillNa(RollMean(RollBase(ac), 28, i)),
     std_7 |-> Raiz(FillNa(RollStd(RollBase(ac), 7, i))),
     std_14 |-> Raiz(FillNa(RollStd(RollBase(ac), 14, i))),
     std_28 |-> Raiz(FillNa(RollStd(RollBase(ac), 28, i)))]

\* The lag and rolling cells of a frame without an acidentes column.
LagRollZero ==
    [lag_1 |-> Zero, lag_2 |-> Zero, lag_7 |-> Zero, lag_14 |-> Zero,
     media_7 |-> Zero, media_14 |-> Zero, media_28 |-> Zero,
     std_7 |-> RaizZero, std_14 |-> RaizZero, std_28 |-> RaizZero]

(***************************************************************************)
(* Encoder registry                                                        *)
(***************************************************************************)

\* LabelEncoder().fit(values): classes_ is the sorted distinct values.
FitEncoder(vals) == SortTexts(SeqToSet(vals))

\* enc.transform([x])[0]: the 0-based position of x in classes_.
Transform(enc, x) == (CHOOSE i \in 1..Len(enc) : enc[i] = x) - 1

\* The code put in an out-of-vocabulary cell.
Sentinela == -1

\* enc.transform([x])[0] if x in enc.classes_ else -1
Encode(enc, x) == IF x \in SeqToSet(enc) THEN Transform(enc, x) ELSE Sentinela

\* The registry after the encoding loop of _criar_features over a frame:
\* a column of the frame without an encoder gets one fitted on that column.
EncodersApos(encoders, df) ==
    LET novos == {c \in SeqToSet(CatCols) : c \in df.cols /\ c \notin DOMAIN encoders}
    IN  [c \in DOMAIN encoders \cup novos |->
            IF c \in DOMAIN encoders THEN encoders[c]
            ELSE FitEncoder([i \in 1..Len(df.rows) |-> df.rows[i][c]])]

\* The *_enc cell of column c in row r, encs being the registry after the
\* loop: the encoder's code, or 0 when the frame has no such column.
EncCell(encs, df, r, c) ==
    IF c \in df.cols THEN Encode(encs[c], r[c]) ELSE 0

EncCells(encs, df, r) ==
    [uf_enc |-> EncCell(encs, df, r, "uf"),
     municipio_enc |-> EncCell(encs, df, r, "municipio"),
     tipo_acidente_enc |-> EncCell(encs, df, r, "tipo_acidente"),
     clima_enc |-> EncCell(encs, df, r, "clima")]

\* The columns a frame has when _criar_features selects df[features].
ColsApos(df) ==
    df.cols \cup (SeqToSet(Features) \ {"hora_media"})

SemX == [columns |-> <<>>, rows |-> <<>>]

\* Row i of the frame with every column _criar_features adds (a computed
\* column replaces an input column of the same name).
LinhaCompleta(df, encs, ac, i) ==
    Calendario(df.rows[i].data)
    @@ (IF "acidentes" \in df.cols THEN LagRoll(ac, i) ELSE LagRollZero)
    @@ EncCells(encs, df, df.rows[i])
    @@ df.rows[i]

Restrita(r, nomes) == [f \in SeqToSet(nomes) |-> r[f]]

\* df[features]
Selecionar(df, encs, ac) ==
    [columns |-> Features,
     rows |-> [i \in 1..Len(df.rows) |-> Restrita(LinhaCompleta(df, encs, ac, i), Features)]]

\* The frame df as _criar_features leaves it: the columns are added to df
\* itself.
FrameApos(df, encs) ==
    [cols |-> ColsApos(df),
     rows |-> [i \in 1..Len(df.rows) |->
                 LinhaCompleta(df, encs, IF "acidentes" \in df.cols
                                         THEN Coluna(df.rows, "acidentes") ELSE <<>>, i)]]

\* _criar_features once the encoding loop has left the registry encs.
CriarFeaturesCom(encoders, df, encs) ==
    IF \E i \in 1..Len(df.rows) : df.rows[i].data = NaT
    THEN [status |-> "ValueError", X |-> SemX, y |-> <<>>, encoders |-> encoders]
    ELSE IF ~(SeqToSet(Features) \subseteq ColsApos(df))
    THEN [status |-> "KeyError", X |-> SemX, y |-> <<>>, encoders |-> encs]
    ELSE IF "acidentes" \in df.cols
    THEN [status |-> "ok", X |-> Selecionar(df, encs, Coluna(df.rows, "acidentes")),
          y |-> Coluna(df.rows, "acidentes"), encoders |-> encs]
    ELSE [status |-> "ok", X |-> Selecionar(df, encs, <<>>), y |-> <<>>, encoders |-> encs]

\* AccidentPredictor._criar_features on the frame df (a set of column names
\* and a sequence of rows) with the registry `encoders`: the outcome, the
\* matrix X (its ordered columns and its rows), the labels y (<<>> when the
\* frame has no acidentes column) and the registry left behind.
CriarFeatures(encoders, df) == CriarFeaturesCom(encoders, df, EncodersApos(encoders, df))

(***************************************************************************)
(* Regressor (lgb.LGBMRegressor, an external collaborator)                 *)
(***************************************************************************)

\* Outputs of the regressor are in quarters of a unit.
Quartos == 4

\* LGBMRegressor(random_state=42) before fit.
ModeloNovo == [fitted |-> FALSE, nfeat |-> 0, vies |-> 0]

\* A regressor fitted on a matrix with nfeat columns; vies stands for what
\* the fit learnt.
ModeloFit(nfeat, vies) == [fitted |-> TRUE, nfeat |-> nfeat, vies |-> vies]

\* modelo.predict on one row: a fixed function of the row's cells, in
\* quarters (it may be negative or fractional).
PredictRow(m, x) ==
    m.vies + 2 * (x.uf_enc + x.municipio_enc + x.tipo_acidente_enc + x.clima_enc)

\* Whether modelo.predict accepts the matrix.
PredictOk(m, X) == m.fitted /\ Len(X.columns) = m.nfeat

\* np.round of q quarters: to the nearest integer, halves to the even one.
Round(q) ==
    LET f == q \div Quartos
        r == q % Quartos
    IN  IF 2 * r < Quartos THEN f
        ELSE IF 2 * r > Quartos THEN f + 1
        ELSE IF f % 2 = 0 THEN f ELSE f + 1

\* A clip that lets negative values through.
ClipSemLimite(v) == v

\* np.clip(v, 0, None)
Clip(v) == IF v < 0 THEN 0 ELSE v

\* np.clip(np.round(modelo.predict(X)), 0, None) over the rows of X.
Previsoes(m, rows) == [i \in 1..Len(rows) |-> Clip(Round(PredictRow(m, rows[i])))]

ErrosQuad(y, p) == Soma([i \in 1..Len(y) |-> (y[i] - p[i]) * (y[i] - p[i])])

\* R2 from the number of samples n, the residual sum of squares res and n
\* times the total sum of squares.
R2De(n, res, tot) ==
    IF n < 2 THEN NaNRat
    ELSE IF tot = 0 THEN (IF res = 0 THEN <<1, 1>> ELSE Zero)
    ELSE Rat(tot - n * res, tot)

\* sklearn r2_score(y, p): NaN below two samples.
R2(y, p) ==
    R2De(Len(y), ErrosQuad(y, p),
         Len(y) * Soma([i \in 1..Len(y) |-> y[i] * y[i]]) - Soma(y) * Soma(y))

\* np.sqrt(mean_squared_error(y, p)), for n >= 1 samples.
Rmse(y, p) == Raiz(Rat(ErrosQuad(y, p), Len(y)))

(***************************************************************************)
(* The split index int(len(X) * 0.7) in IEEE-754 double arithmetic         *)
(***************************************************************************)

\* The number of significand bits of a double, and of the bits a limb holds.
Precisao == 53
BitsLimbo == 18
Limbo == 2 ^ BitsLimbo

\* The double nearest to 0.7 is 0x16666666666666 * 2^-53: its significand in
\* limbs of 18 bits, least significant first.
Mant07 == <<157286, 104857, 91750>>

\* The bit length of a positive number below 2^30.
BitLen(x) == CHOOSE k \in 1..30 : 2 ^ (k - 1) <= x /\ x < 2 ^ k

\* The product n * 0x16666666666666 in limbs, the most significant one
\* holding what is above the two low limbs.
Limbos(p0, p1, n) == <<p0 % Limbo, p1 % Limbo, n * Mant07[3] + p1 \div Limbo>>
ProdutoDe(p0, n) == Limbos(p0, n * Mant07[2] + p0 \div Limbo, n)
Produto(n) == ProdutoDe(n * Mant07[1], n)

\* The lowest limb with its k lowest bits rounded away, ties to even (the
\* result may reach Limbo: a carry).
RoundLimbo(l0, k) ==
    IF k = 0 THEN l0
    ELSE IF (l0 % 2 ^ k) * 2 > 2 ^ k
              \/ ((l0 % 2 ^ k) * 2 = 2 ^ k /\ (l0 \div 2 ^ k) % 2 = 1)
    THEN l0 - (l0 % 2 ^ k) + 2 ^ k
    ELSE l0 - (l0 % 2 ^ k)

\* The product rounded to Precisao significant bits: a double.
RoundDouble(p) ==
    <<RoundLimbo(p[1], BitLen(p[3]) + 2 * BitsLimbo - Precisao), p[2], p[3]>>

\* int() of the double p * 2^-53.
Truncar(p) ==
    (p[3] + (IF p[1] >= Limbo /\ p[2] = Limbo - 1 THEN 1 ELSE 0))
        \div 2 ^ (Precisao - 2 * BitsLimbo)

\* int(n * 0.7): the product of the doubles n and 0.7, rounded to a double,
\* then truncated.
SplitIndex(n) == IF n = 0 THEN 0 ELSE Truncar(RoundDouble(Produto(n)))

(***************************************************************************)
(* The predictor                                                           *)
(***************************************************************************)

\* An absent value (Python None) is <<>>, a present value v is <<v>>.
None == <<>>
Some(v) == <<v>>

\* The empty encoder registry {}.
SemEncoders == [c \in {} |-> <<>>]

\* AccidentPredictor.__init__
Novo ==
    [modelo |-> ModeloNovo,
     encoders |-> SemEncoders,
     feature_names |-> <<>>,
     treinado |-> FALSE,
     best_params |-> {},
     r2_score_train |-> None,
     rmse_score_train |-> None,
     r2_score_test |-> None,
     rmse_score_test |-> None,
     historical_df |-> None]

\* What an operation leaves in `ult` besides its name and outcome.
SemFrame == [cols |-> {}, rows |-> <<>>]

SemSaida ==
    [resultado |-> <<>>, linhas |-> 0, X |-> SemX, frame |-> SemFrame, entrada |-> SemFrame,
     y |-> <<>>, datas |-> <<>>, split |-> 0, treino |-> <<>>, teste |-> <<>>]

Ult(op, status) == [op |-> op, status |-> status] @@ SemSaida

\* The same for a call that was given the frame df.
UltCom(op, status, df) == [op |-> op, status |-> status, frame |-> df] @@ SemSaida


(***************************************************************************)
(* treinar                                                                 *)
(***************************************************************************)

Linhas(rows, idx) == [i \in 1..Len(idx) |-> rows[idx[i]]]

\* The row positions of X.iloc[:k] and of X.iloc[k:], n being len(X).
Iloc(lo, hi) == [i \in 1..Max2(0, hi - lo + 1) |-> lo + i - 1]
TreinoIdx(n, k) == Iloc(1, k)
TesteIdx(n, k) == Iloc(k + 1, n)

\* The frame the aggregation hands to the feature builder.
AggFrame(regs) == [cols |-> AggCols, rows |-> ProcessarDados(regs)]

\* What treinar has computed when it reaches modelo.fit.
SaidaTreino(df, cf, nregs, k) ==
    [X |-> cf.X, y |-> cf.y, linhas |-> nregs, frame |-> df,
     datas |-> Coluna(df.rows, "data"),
     split |-> k,
     treino |-> TreinoIdx(Len(cf.X.rows), k),
     teste |-> TesteIdx(Len(cf.X.rows), k),
     resultado |-> <<>>]

\* Lines 135-142: the metrics of the fitted regressor m on the two slices,
\* and the trained flag.
Avaliado(p, m, yTr, xTr, yTe, xTe) ==
    [p EXCEPT !.modelo = m,
              !.r2_score_train = Some(R2(yTr, Previsoes(m, xTr))),
              !.rmse_score_train = Some(Rmse(yTr, Previsoes(m, xTr))),
              !.r2_score_test = Some(R2(yTe, Previsoes(m, xTe))),
              !.rmse_score_test = Some(Rmse(yTe, Previsoes(m, xTe))),
              !.treinado = TRUE]

\* Lines 127-142: the split at row k, the fit and the evaluation, p being
\* the predictor after line 124.
Ajustar(p, cf, saida, k, fitOk, vies) ==
    IF k = 0 \/ ~fitOk
    THEN [pred |-> p, ult |-> [op |-> "treinar", status |-> "FitError"] @@ saida]
    ELSE [pred |-> Avaliado(p, ModeloFit(Len(cf.X.columns), vies),
                            Linhas(cf.y, saida.treino), Linhas(cf.X.rows, saida.treino),
                            Linhas(cf.y, saida.teste), Linhas(cf.X.rows, saida.teste)),
          ult |-> [op |-> "treinar", status |-> "ok"] @@ saida]

\* The retained series is the frame itself, which the feature builder
\* then extends.
HistoricoSemCopia(df, dfApos) == dfApos

\* Line 122: the retained series is a copy of the aggregated frame df, taken
\* before _criar_features extends df into dfApos.
Historico(df, dfApos) == df

TreinarSplit(p, df, cf, nregs, k, fitOk, vies) ==
    Ajustar([p EXCEPT !.historical_df = Some(Historico(df, FrameApos(df, cf.encoders))),
                      !.encoders = cf.encoders,
                      !.feature_names = cf.X.columns],
            cf, SaidaTreino(df, cf, nregs, k), k, fitOk, vies)

TreinarFeatures(p, df, cf, nregs, fitOk, vies) ==
    TreinarSplit(p, df, cf, nregs, SplitIndex(Len(cf.X.rows)), fitOk, vies)

TreinarFrame(p, df, nregs, fitOk, vies) ==
    TreinarFeatures(p, df, CriarFeatures(p.encoders, df), nregs, fitOk, vies)

\* AccidentPredictor.treinar on predictor p, regs being the records of the
\* JSON file; fitOk tells whether modelo.fit returns or raises, and vies is
\* what it learns.  The result is the predictor and the record of the call.
AposTreinar(p, regs, fitOk, vies) ==
    IF regs = <<>>
    THEN [pred |-> p, ult |-> Ult("treinar", "KeyError")]
    ELSE TreinarFrame(p, AggFrame(regs), Len(regs), fitOk, vies)

(***************************************************************************)
(* salvar_modelo and load_model                                            *)
(***************************************************************************)

\* The dict salvar_modelo pickles.
Artefato(p) ==
    [modelo |-> p.modelo,
     encoders |-> p.encoders,
     features |-> p.feature_names,
     r2_train |-> p.r2_score_train,
     rmse_train |-> p.rmse_score_train,
     r2_test |-> p.r2_score_test,
     rmse_test |-> p.rmse_score_test,
     historical_df |-> p.historical_df]

\* A file that is not there, one that does not unpickle, one holding a dict.
SemArquivo == [estado |-> "ausente", data |-> <<>>]
Corrompido == [estado |-> "corrompido", data |-> <<>>]
Pickle(d) == [estado |-> "pickle", data |-> d]

\* dict.get(k, default)
Get(d, k, default) == IF k \in DOMAIN d THEN d[k] ELSE default

\* The predictor load_model builds from the unpickled dict.
Carregado(data) ==
    [Novo EXCEPT
        !.modelo = Get(data, "modelo", Get(data, "model", ModeloNovo)),
        !.encoders = Get(data, "encoders", SemEncoders),
        !.feature_names = Get(data, "features", Get(data, "feature_names", <<>>)),
        !.best_params = Get(data, "params", Get(data, "best_params", {})),
        !.r2_score_test = Get(data, "r2_test", Get(data, "r2", None)),
        !.rmse_score_test = Get(data, "rmse_test", Get(data, "rmse", None)),
        !.historical_df = Get(data, "historical_df", None),
        !.treinado = TRUE]

(***************************************************************************)
(* prever                                                                  *)
(***************************************************************************)

\* Lines 173-177: the copy of the input with its data and clima columns.
FramePrever(df) ==
    [cols |-> df.cols \cup {"data", "clima"},
     rows |-> [i \in 1..Len(df.rows) |->
                 [data |-> ParseData(df.rows[i].data_inversa),
                  clima |-> SimplificarClima(df.rows[i].condicao_metereologica)]
                 @@ df.rows[i]]]

\* X_input[self.feature_names]
XPredict(X, fn) ==
    [columns |-> fn, rows |-> [i \in 1..Len(X.rows) |-> Restrita(X.rows[i], fn)]]

\* Lines 183-191, cf being what _criar_features returned and p1 the
\* predictor it left.
PreverCom(p1, cf, df1) ==
    IF cf.status # "ok"
    THEN [pred |-> p1, ult |-> UltCom("prever", cf.status, df1)]
    ELSE IF ~(SeqToSet(p1.feature_names) \subseteq SeqToSet(cf.X.columns))
    THEN [pred |-> p1, ult |-> UltCom("prever", "KeyError", df1)]
    ELSE IF ~PredictOk(p1.modelo, XPredict(cf.X, p1.feature_names))
    THEN [pred |-> p1, ult |-> UltCom("prever", "PredictError", df1)]
    ELSE [pred |-> p1,
          ult |-> [op |-> "prever", status |-> "ok",
                   X |-> XPredict(cf.X, p1.feature_names),
                   linhas |-> Len(df1.rows), frame |-> df1,
                   resultado |-> Previsoes(p1.modelo, XPredict(cf.X, p1.feature_names).rows)]
                  @@ SemSaida]

PreverFeatures(p, cf, df1) == PreverCom([p EXCEPT !.encoders = cf.encoders], cf, df1)

PreverFrame(p, df1) == PreverFeatures(p, CriarFeatures(p.encoders, df1), df1)

\* Line 173: prever works on a copy, so the caller's frame df is as it was
\* when the call r ends.
DeixaEntrada(r, df) == [pred |-> r.pred, ult |-> [entrada |-> df] @@ r.ult]

\* prever without its check of the trained flag.
AposPreverSemGuarda(p, df) ==
    DeixaEntrada(IF ~({"data_inversa", "condicao_metereologica"} \subseteq df.cols)
                 THEN [pred |-> p, ult |-> UltCom("prever", "KeyError", df)]
                 ELSE PreverFrame(p, FramePrever(df)),
                 df)

\* AccidentPredictor.prever on predictor p and input frame df: the
\* predictor and the record of the call.
AposPrever(p, df) ==
    DeixaEntrada(IF ~p.treinado
                 THEN [pred |-> p, ult |-> UltCom("prever", "RuntimeError", df)]
                 ELSE IF ~({"data_inversa", "condicao_metereologica"} \subseteq df.cols)
                 THEN [pred |-> p, ult |-> UltCom("prever", "KeyError", df)]
                 ELSE PreverFrame(p, FramePrever(df)),
                 df)

(***************************************************************************)
(* data_generator                                                          *)
(***************************************************************************)

\* Decimal text of n in two and in four digits.
Dig(k) == SubSeq("0123456789", k + 1, k + 1)
Pad2(n) == Dig((n \div 10) % 10) \o Dig(n % 10)
Pad4(n) == Pad2(n \div 100) \o Pad2(n % 100)

\* date.strftime("%Y-%m-%d")
FmtIso(dt) == Pad4(dt[1]) \o "-" \o Pad2(dt[2]) \o "-" \o Pad2(dt[3])

DiasNoAno(y) == IF Bissexto(y) THEN 366 ELSE 365

\* The date of day da of month m of year y, da counting from the first of
\* January.
DataNoMes(y, m, da) == <<y, m, da - DiaAno(<<y, m, 1>>) + 1>>

\* The date of the day of year da (1 or more) of year y.
DataDoDiaAno(y, da) ==
    DataNoMes(y, CHOOSE m \in 1..12 : /\ DiaAno(<<y, m, 1>>) <= da
                                      /\ da < DiaAno(<<y, m, 1>>) + DiasNoMes(m, y), da)

RECURSIVE MenosDias(_, _)
MenosDias(y, da) ==
    IF da < 1 THEN MenosDias(y - 1, da + DiasNoAno(y - 1)) ELSE DataDoDiaAno(y, da)

\* date - timedelta(days=k)
Menos(dt, k) == MenosDias(dt[1], DiaAno(dt) - k)

\* The year, month and day texts of a date written with two dashes.
CamposIso(s, p1, p2) ==
    <<SubSeq(s, 1, p1 - 1), SubSeq(s, p1 + 1, p2 - 1), SubSeq(s, p2 + 1, Len(s))>>

DataDe(y, m, d) ==
    IF m \in 1..12 /\ d >= 1 /\ d <= DiasNoMes(m, y) THEN <<y, m, d>> ELSE NaT

DataDeCampos(c) ==
    IF ~(IsDigits(c[1]) /\ IsDigits(c[2]) /\ IsDigits(c[3])) THEN NaT
    ELSE IF Len(c[1]) # 4 \/ Len(c[2]) > 2 \/ Len(c[3]) > 2 THEN NaT
    ELSE DataDe(ToInt(c[1]), ToInt(c[2]), ToInt(c[3]))

\* pd.to_datetime(text, format="%Y-%m-%d", errors="coerce")
ParseDataIso(s) ==
    IF Cardinality(SepPos(s, "-")) # 2 THEN NaT
    ELSE DataDeCampos(CamposIso(s, CHOOSE p \in SepPos(s, "-") : \A q \in SepPos(s, "-") : p <= q,
                                CHOOSE p \in SepPos(s, "-") : \A q \in SepPos(s, "-") : p >= q))

HoraDeCampos(hs, ms) ==
    IF ~(IsDigits(hs) /\ IsDigits(ms)) THEN NaN
    ELSE IF Len(hs) > 2 \/ Len(ms) > 2 THEN NaN
    ELSE IF ToInt(hs) <= 23 /\ ToInt(ms) <= 59 THEN ToInt(hs)
    ELSE NaN

\* pd.to_datetime(text, format="%H:%M", errors="coerce").dt.hour
ParseHoraMinuto(s) ==
    IF Cardinality(SepPos(s, ":")) # 1 THEN NaN
    ELSE HoraDeCampos(SubSeq(s, 1, (CHOOSE p \in SepPos(s, ":") : TRUE) - 1),
                      SubSeq(s, (CHOOSE p \in SepPos(s, ":") : TRUE) + 1, Len(s)))

\* date.strftime("%A")
NomeDia(dt) ==
    <<"Monday", "Tuesday", "Wednesday", "Thursday", "Friday", "Saturday",
      "Sunday">>[DiaSemana(dt) + 1]

\* list[:k]
Primeiros(l, k) == SubSeq(l, 1, Min2(k, Len(l)))

\* Record i (from 0) of the loop of generate_accident_data, ufs and conds
\* being the sampled options and d the date of the record.  The latitude
\* and longitude of the record are not read by anything modelled here.
LinhaGerada(ufs, conds, munis, d, i) ==
    [data |-> FmtIso(d),
     horario |-> Pad2((i * 4) % 24) \o ":00",
     uf |-> ufs[(i % Len(ufs)) + 1],
     municipio |-> IF munis[ufs[(i % Len(ufs)) + 1]] # <<>>
                   THEN munis[ufs[(i % Len(ufs)) + 1]][1] ELSE "N/A",
     tipo_acidente |-> "Colisão",
     condicao_metereologica |-> conds[(i % Len(conds)) + 1],
     dia_semana |-> NomeDia(d),
     mes |-> d[2],
     ano |-> d[1]]

GeradoCols == {"data", "horario", "uf", "municipio", "tipo_acidente",
               "condicao_metereologica", "dia_semana", "mes", "ano"}

\* df_input_for_model for num_records = n.
FrameGerado(op, hoje, n) ==
    [cols |-> GeradoCols,
     rows |-> [k \in 1..n |->
                 LinhaGerada(Primeiros(op.uf_options, 5),
                             Primeiros(op.condicoes_options, 3),
                             op.municipios_por_uf, Menos(hoje, (k - 1) % 30), k - 1)]]

\* The encoding loop of _criar_features_para_previsao for field col of
\* row r: the registry is looked up under the name of the column.
GeradorEncCell(encoders, cols, r, col) ==
    IF col \in cols /\ col \in DOMAIN encoders THEN Encode(encoders[col], r[col]) ELSE 0

\* The calendar columns of _criar_features_para_previsao.
GeradorCalendario(dt) ==
    Restrita(Calendario(dt), <<"ano", "mes", "dia_semana", "dia_ano", "semana",
                               "fim_semana", "feriado", "feriado_fim_semana">>)

\* Row r of df once _criar_features_para_previsao has added its columns,
\* dt being the parsed date and clima the simplified weather.
GeradorLinhaCom(encoders, cols, r, dt, rc) ==
    [data |-> dt, hora |-> ParseHoraMinuto(r.horario),
     condicao_metereologica |-> rc.condicao_metereologica,
     uf_enc |-> GeradorEncCell(encoders, cols, rc, "uf"),
     municipio_enc |-> GeradorEncCell(encoders, cols, rc, "municipio"),
     tipo_acidente_enc |-> GeradorEncCell(encoders, cols, rc, "tipo_acidente"),
     clima_enc |-> GeradorEncCell(encoders, cols, rc, "condicao_metereologica")]
    @@ GeradorCalendario(dt) @@ LagRollZero @@ r

GeradorLinha(encoders, cols, r) ==
    GeradorLinhaCom(encoders, cols, r, ParseDataIso(r.data),
                    [r EXCEPT !.condicao_metereologica =
                                  GeradorSimplificarClima(r.condicao_metereologica)])

GeradorColsApos(cols) ==
    cols \cup {"hora", "ano", "mes", "dia_semana", "dia_ano", "semana", "fim_semana",
               "feriado", "feriado_fim_semana", "uf_enc", "municipio_enc",
               "tipo_acidente_enc", "clima_enc"}
         \cup DOMAIN LagRollZero

\* Lines 91-96: the columns of feature_names, a column df lacks being 0.
GeradorX(fn, df) ==
    [columns |-> fn,
     rows |-> [i \in 1..Len(df.rows) |->
                 [f \in SeqToSet(fn) |-> IF f \in df.cols THEN df.rows[i][f] ELSE 0]]]

\* The frame df of _criar_features_para_previsao before the selection.
GeradorFrame(encoders, df) ==
    [cols |-> GeradorColsApos(df.cols),
     rows |-> [i \in 1..Len(df.rows) |-> GeradorLinha(encoders, df.cols, df.rows[i])]]

\* _criar_features_para_previsao
CriarFeaturesParaPrevisao(encoders, fn, df) == GeradorX(fn, GeradorFrame(encoders, df))

\* Lines 171-176 on the matrix X built from frame df.
\* `entrada` is df_input_for_model, which the feature builder copies.
GerarCom(g, df, X, n) ==
    IF ~PredictOk(g.modelo, X)
    THEN UltCom("gerar", "PredictError", df)
    ELSE [op |-> "gerar", status |-> "ok", frame |-> df, X |-> X, linhas |-> n,
          resultado |-> Previsoes(g.modelo, X.rows)] @@ SemSaida

\* generate_accident_data(n) in module state g, op being the option files
\* and hoje the date of the call: the record of the call.
AposGerar(g, op, hoje, n) ==
    IF ~g.temModelo THEN Ult("gerar", "vazio")
    ELSE [entrada |-> FrameGerado(op, hoje, n)]
         @@ GerarCom(g, GeradorFrame(g.encoders, FrameGerado(op, hoje, n)),
                     CriarFeaturesParaPrevisao(g.encoders, g.feature_names,
                                               FrameGerado(op, hoje, n)),
                     n)

\* Lines 13-27: the module state the import leaves, from the file d.
GeradorImportado(d) ==
    IF d.estado = "ausente"
    THEN [estado |-> "importado", temModelo |-> FALSE, modelo |-> ModeloNovo,
          encoders |-> SemEncoders, feature_names |-> <<>>]
    ELSE IF d.estado = "corrompido" \/ ~({"modelo", "encoders", "features"} \subseteq DOMAIN d.data)
    THEN [estado |-> "falhou", temModelo |-> FALSE, modelo |-> ModeloNovo,
          encoders |-> SemEncoders, feature_names |-> <<>>]
    ELSE [estado |-> "importado", temModelo |-> TRUE, modelo |-> d.data.modelo,
          encoders |-> d.data.encoders, feature_names |-> d.data.features]

(***************************************************************************)
(* Inputs                                                                  *)
(***************************************************************************)

Reg(d, h, u, m, t, c) ==
    [data_inversa |-> d, horario |-> h, uf |-> u, municipio |-> m,
     tipo_acidente |-> t, condicao_metereologica |-> c]

\* Incident records as the JSON file lists them.
Ocorrencias ==
    <<Reg("02/01/2023", "08:10:00", "PE", "RECIFE", "Tombamento", "Chuva leve"),
      Reg("03/01/2023", "10:00:00", "PE", "OLINDA", "Tombamento", "Céu Claro"),
      Reg("04/01/2023", "23:59:59", "SP", "SANTOS", "Capotamento", "Nublado"),
      Reg("02/01/2023", "21:30:00", "SP", "OLINDA", "Capotamento", "Sol"),
      Reg("31/12/2018", "07:00:00", "BA", "ILHEUS", "Tombamento", "Vento"),
      Reg("05/01/2023", "12:00:00", "BA", "ILHEUS", "Atropelamento", "Ignorado"),
      Reg("06/01/2023", "06:45:00", "PE", "OLINDA", "Tombamento", "Nevoeiro")>>

\* Bounds: the longest training file of the lifecycle, and how many times a
\* run trains.
MaxRegs == 2
MaxTreinos == 1

\* The training files of the lifecycle: the first k records.
EntradasTreino == {SubSeq(Ocorrencias, 1, k) : k \in 0..MaxRegs}

\* What modelo.fit may learn (in quarters).
Vieses == {-6, 1}

Pedido(d, u, m, t, c, hm) ==
    [data_inversa |-> d, uf |-> u, municipio |-> m, tipo_acidente |-> t,
     condicao_metereologica |-> c, hora_media |-> hm, horario |-> "12:00:00"]

\* Prediction rows as interface.py builds them.
Pedidos ==
    <<Pedido("07/01/2023", "PE", "RECIFE", "Tombamento", "Bom", <<12, 1>>),
      Pedido("07/01/2023", "SP", "DESCONHECIDO", "Capotamento", "Chuva", <<8, 1>>),
      Pedido("08/01/2023", "RJ", "NITEROI", "DESCONHECIDO", "Vento", <<23, 1>>)>>

PedidoCols == {"data_inversa", "horario", "uf", "municipio", "tipo_acidente",
               "condicao_metereologica", "hora_media"}

Frame(cols, rows) ==
    [cols |-> cols, rows |-> [i \in 1..Len(rows) |-> [c \in cols |-> rows[i][c]]]]

\* The input frames of prever: one row with every column, one row with the
\* date or an optional column left out, and two rows with every column.
EntradasPrever ==
    {Frame(PedidoCols, <<Pedidos[i]>>) : i \in 1..Len(Pedidos)}
    \cup {Frame(PedidoCols \ {c}, <<Pedidos[1]>>) :
              c \in {"data_inversa", "hora_media", "uf", "municipio", "tipo_acidente"}}
    \cup {Frame(PedidoCols, <<Pedidos[2], Pedidos[3]>>)}

\* The file a successful training run on the first records leaves behind.
ArtefatoRef == Artefato(AposTreinar(Novo, SubSeq(Ocorrencias, 1, 4), TRUE, 1).pred)

\* The components of the artifact, as sets of keys of the dict.
Componentes ==
    {{"modelo"}, {"encoders"}, {"features"}, {"historical_df"},
     {"r2_train", "rmse_train", "r2_test", "rmse_test"}}

Sem(d, ks) == [k \in (DOMAIN d) \ ks |-> d[k]]

\* The files load_model may find when the program starts: none, one that
\* does not unpickle, and dicts written in another format that lack one
\* component.
DiscosIniciais ==
    {SemArquivo, Corrompido} \cup {Pickle(Sem(ArtefatoRef, ks)) : ks \in Componentes}

\* data_generator before it is imported.
GeradorFora == [estado |-> "fora", temModelo |-> FALSE, modelo |-> ModeloNovo,
                encoders |-> SemEncoders, feature_names |-> <<>>]

(***************************************************************************)
(* Actions                                                                 *)
(***************************************************************************)

\* predictor = AccidentPredictor()
Construir ==
    /\ pred' = Novo
    /\ ult' = Ult("construir", "ok")
    /\ UNCHANGED <<disco, gerador, treinos>>

\* A call on the predictor ends: r is the predictor and the record it leaves.
Fica(r) ==
    /\ pred' = r.pred
    /\ ult' = r.ult
    /\ UNCHANGED <<disco, gerador>>

\* predictor.treinar(arquivo_json)
Treinar ==
    \E regs \in EntradasTreino, fitOk \in BOOLEAN, vies \in Vieses :
        /\ treinos < MaxTreinos
        /\ fitOk \/ vies = 1
        /\ Fica(AposTreinar(pred, regs, fitOk, vies))
        /\ treinos' = treinos + 1

\* predictor.salvar_modelo()
SalvarModelo ==
    /\ IF ~pred.treinado
       THEN /\ ult' = Ult("salvar_modelo", "RuntimeError")
            /\ disco' = disco
       ELSE /\ ult' = Ult("salvar_modelo", "ok")
            /\ disco' = Pickle(Artefato(pred))
    /\ UNCHANGED <<pred, gerador, treinos>>

\* predictor = load_model()
LoadModel ==
    /\ IF disco.estado # "pickle"
       THEN /\ ult' = Ult("load_model", "None")
            /\ pred' = pred
       ELSE /\ ult' = Ult("load_model", "ok")
            /\ pred' = Carregado(disco.data)
    /\ UNCHANGED <<disco, gerador, treinos>>

\* predictor.prever(df_input)
Prever ==
    \E df \in EntradasPrever :
        /\ Fica(AposPrever(pred, df))
        /\ UNCHANGED treinos

Init ==
    /\ pred = Novo
    /\ disco \in DiscosIniciais
    /\ gerador = GeradorFora
    /\ ult = Ult("init", "ok")
    /\ treinos = 0

Next ==
    \/ Construir
    \/ Treinar
    \/ SalvarModelo
    \/ LoadModel
    \/ Prever

Spec == Init /\ [][Next]_vars

(***************************************************************************)
(* The dashboard's generator                                               *)
(***************************************************************************)

\* Bounds: the longest training file behind a saved artifact and the most
\* records one call generates.
MaxArquivo == 5
MaxGerados == 3

\* uf_options.json, municipios_por_uf.json and
\* condicoes_metereologicas_options.json.
Opcoes ==
    {[uf_options |-> <<"PE", "SP", "BA">>,
      municipios_por_uf |-> [u \in {"PE", "SP", "BA"} |->
          IF u = "PE" THEN <<"RECIFE", "OLINDA">>
          ELSE IF u = "SP" THEN <<"SANTOS">> ELSE <<>>],
      condicoes_options |-> <<"Chuva", "Céu Claro", "Nublado", "Sol">>],
     [uf_options |-> <<"RJ", "PE">>,
      municipios_por_uf |-> [u \in {"RJ", "PE"} |->
          IF u = "RJ" THEN <<"NITEROI">> ELSE <<"OLINDA">>],
      condicoes_options |-> <<"Garoa", "Ignorado">>]}

\* datetime.now() at the call.
Hojes == {<<2023, 1, 2>>, <<2024, 3, 1>>, <<2023, 4, 8>>}

\* The files the import may find: none, one that does not unpickle, what
\* salvar_modelo wrote after training on the first records, and dicts that
\* lack a component.
DiscosGerador ==
    DiscosIniciais
    \cup {Pickle(Artefato(AposTreinar(Novo, SubSeq(Ocorrencias, 1, k), TRUE, v).pred)) :
              k \in 2..MaxArquivo, v \in Vieses}

\* import data_generator
GeradorImportar ==
    /\ gerador.estado = "fora"
    /\ gerador' = GeradorImportado(disco)
    /\ ult' = Ult("importar", IF GeradorImportado(disco).estado = "importado"
                              THEN "ok" ELSE "erro")
    /\ UNCHANGED <<pred, disco, treinos>>

\* generate_accident_data(n)
GerarDados ==
    \E op \in Opcoes, hoje \in Hojes, n \in 1..MaxGerados :
        /\ gerador.estado = "importado"
        /\ ult' = AposGerar(gerador, op, hoje, n)
        /\ UNCHANGED <<pred, disco, gerador, treinos>>

InitGerador ==
    /\ pred = Novo
    /\ disco \in DiscosGerador
    /\ gerador = GeradorFora
    /\ ult = Ult("init", "ok")
    /\ treinos = 0

NextGerador ==
    \/ GeradorImportar
    \/ GerarDados

SpecGerador == InitGerador /\ [][NextGerador]_vars

(***************************************************************************)
(* Training on a daily series                                              *)
(***************************************************************************)

\* Bound: the longest series, in days.
MaxDias == 91

\* The last day of every series.
UltimoDia == <<2024, 3, 31>>

\* The data_inversa text of a date, as the JSON file writes it.
FmtBr(dt) == Pad2(dt[3]) \o "/" \o Pad2(dt[2]) \o "/" \o Pad4(dt[1])

\* Incident j of day k of a series of n days; the incidents of the last
\* day are in state u.
RegDoDia(n, k, j, u) ==
    Reg(FmtBr(Menos(UltimoDia, n - k)), Pad2((k + 7 * j) % 24) \o ":30:00",
        IF k = n THEN u ELSE "PE", "RECIFE", "Tombamento",
        IF k % 2 = 0 THEN "Chuva fraca" ELSE "Sol")

\* The file lists the days from the last to the first, one incident a day
\* and three on the day `pico`: the day and the incident at position p.
DiaDaPosicao(n, pico, p) ==
    IF p <= n - pico THEN n - p + 1
    ELSE IF p <= n - pico + 3 THEN pico
    ELSE n + 3 - p
Vez(n, pico, p) == IF p > n - pico /\ p <= n - pico + 3 THEN p - (n - pico) ELSE 1

\* The file of a series of n days.
Serie(n, pico, u) ==
    [p \in 1..(n + 2) |-> RegDoDia(n, DiaDaPosicao(n, pico, p), Vez(n, pico, p), u)]

SeriesDe(n) == {Serie(n, pico, u) : pico \in {1, n}, u \in {"PE", "SP"}}

Series == UNION {SeriesDe(n) : n \in 1..MaxDias}

\* predictor.treinar(arquivo_json) on a new predictor
TreinarSerie ==
    \E regs \in Series, fitOk \in BOOLEAN :
        /\ treinos = 0
        /\ Fica(AposTreinar(pred, regs, fitOk, 1))
        /\ treinos' = treinos + 1

InitTreino ==
    /\ pred = Novo
    /\ disco = SemArquivo
    /\ gerador = GeradorFora
    /\ ult = Ult("init", "ok")
    /\ treinos = 0

NextTreino == TreinarSerie

SpecTreino == InitTreino /\ [][NextTreino]_vars

(***************************************************************************)
(* Training on a daily series, then predicting                             *)
(***************************************************************************)

InitPrevisao ==
    /\ pred = Novo
    /\ disco = SemArquivo
    /\ gerador = GeradorFora
    /\ ult = Ult("init", "ok")
    /\ treinos = 0

\* predictor.prever(df_input), called when the training call has ended
PreverAposTreinar ==
    /\ ult.op = "treinar"
    /\ Prever

NextPrevisao ==
    \/ TreinarSerie
    \/ PreverAposTreinar

SpecPrevisao == InitPrevisao /\ [][NextPrevisao]_vars

(***************************************************************************)
(* The two weather normalizers on the same text                            *)
(***************************************************************************)

\* Bound: the number of fragments a weather text is made of.
MaxPalavras == 2

\* Fragments of the weather texts of the incident files.
Fragmentos ==
    {"", "Chuva", "Garoa", "Nublado", "Céu Claro", "Sol", "Bom", "Vento",
     "Nevoeiro", "Neblina", "Ignorado", "chuva forte"}

Junta(a, b) == IF a = "" \/ b = "" THEN a \o b ELSE a \o " e " \o b

\* The texts of at most k fragments.
RECURSIVE Textos(_)
Textos(k) ==
    IF k = 0 THEN {""}
    ELSE {Junta(t, f) : t \in Textos(k - 1), f \in Fragmentos}

\* predictor._simplificar_clima(cond), as _processar_dados and prever call it
NormalizarNoTreino ==
    \E t \in Textos(MaxPalavras) :
        /\ ult' = [texto |-> t, classe |-> Some(SimplificarClima(t)),
                   classeGerador |-> None] @@ Ult("simplificar_clima", "ok")
        /\ UNCHANGED <<pred, disco, gerador, treinos>>

\* data_generator._simplificar_clima(cond) on the text the predictor was given
NormalizarNoGerador ==
    /\ ult.op = "simplificar_clima"
    /\ ult.classeGerador = None
    /\ ult' = [ult EXCEPT !.classeGerador = Some(GeradorSimplificarClima(ult.texto))]
    /\ UNCHANGED <<pred, disco, gerador, treinos>>

InitClima ==
    /\ pred = Novo
    /\ disco = SemArquivo
    /\ gerador = GeradorFora
    /\ ult = Ult("init", "ok")
    /\ treinos = 0

\* predictor._simplificar_clima(classe), as line 59 applies it to the class
\* the normalizer returned and prever to a class chosen in the interface
NormalizarAClasse ==
    /\ ult.op = "simplificar_clima"
    /\ ult' = [texto |-> ult.classe[1], classe |-> Some(SimplificarClima(ult.classe[1])),
               classeGerador |-> None] @@ Ult("simplificar_classe", "ok")
    /\ UNCHANGED <<pred, disco, gerador, treinos>>

NextClima ==
    \/ NormalizarNoTreino
    \/ NormalizarNoGerador
    \/ NormalizarAClasse

SpecClima == InitClima /\ [][NextClima]_vars

(***************************************************************************)
(* The daily aggregation of an incident file                               *)
(***************************************************************************)

\* Bound: the number of records of a file.
MaxFichas == 3

\* Records a file may list: incidents of 02/01/2023 and 05/01/2023 and of
\* the first day of 2019, one of 2018, one whose date is no date, one
\* whose time is no time, and records with a null state, weather or date.
Fichas ==
    {Reg("02/01/2023", "08:10:00", "SP", "SANTOS", "Capotamento", "Sol"),
     Reg("02/01/2023", "21:30:00", "PE", "RECIFE", "Tombamento", "Chuva leve"),
     Reg("02/01/2023", "09:00:00", "SP", "RECIFE", "Tombamento", "Garoa"),
     Reg("05/01/2023", "12:00:00", "BA", "ILHEUS", "Atropelamento", "Ignorado"),
     Reg("01/01/2019", "00:00:00", "PE", "OLINDA", "Tombamento", "Nublado"),
     Reg("31/12/2018", "07:00:00", "BA", "ILHEUS", "Tombamento", "Vento"),
     Reg("31/02/2023", "07:00:00", "BA", "ILHEUS", "Tombamento", "Vento"),
     Reg("05/01/2023", "25:00:00", "RJ", "NITEROI", "Colisao", "Neblina"),
     Reg("05/01/2023", "23:00:00", Nulo, "NITEROI", "Colisao", "Neblina"),
     Reg("02/01/2023", "23:00:00", "RJ", "NITEROI", "Colisao", Nulo),
     Reg(Nulo, "23:00:00", "RJ", "NITEROI", "Colisao", "Neblina")}

\* The files of exactly k records.
RECURSIVE ArquivosDe(_)
ArquivosDe(k) ==
    IF k = 0 THEN {<<>>}
    ELSE {Append(a, r) : a \in ArquivosDe(k - 1), r \in Fichas}

Arquivos == UNION {ArquivosDe(k) : k \in 0..MaxFichas}

\* AccidentPredictor._processar_dados on the frame of the records regs: the
\* file, the records left after line 48 and the aggregated frame.
AposProcessar(regs) ==
    IF regs = <<>>
    THEN [arquivo |-> regs, retidos |-> <<>>] @@ Ult("processar_dados", "KeyError")
    ELSE [arquivo |-> regs, retidos |-> Retidos(regs)]
         @@ UltCom("processar_dados", "ok", AggFrame(regs))

\* df = predictor._processar_dados(pd.DataFrame(json.load(f)))
ProcessarArquivo ==
    \E regs \in Arquivos :
        /\ treinos = 0
        /\ ult' = AposProcessar(regs)
        /\ treinos' = treinos + 1
        /\ UNCHANGED <<pred, disco, gerador>>

InitAgregar ==
    /\ pred = Novo
    /\ disco = SemArquivo
    /\ gerador = GeradorFora
    /\ ult = Ult("init", "ok")
    /\ treinos = 0

NextAgregar == ProcessarArquivo

SpecAgregar == InitAgregar /\ [][NextAgregar]_vars

(***************************************************************************)
(* Properties of the predictor's lifecycle                                 *)
(***************************************************************************)

\* The last call was prever, on a predictor whose trained flag was set.
PreverAceito == ult.op = "prever" /\ ult.status # "RuntimeError"

\* The frame prever was given has the two columns prever reads itself, and
\* every date of it parses.
EntradaValida ==
    /\ {"data_inversa", "condicao_metereologica"} \subseteq ult.frame.cols
    /\ \A i \in 1..Len(ult.frame.rows) : ult.frame.rows[i].data # NaT

\* Column f of the matrix the last call built is zero in every row.
ColunaZero(f) == \A i \in 1..Len(ult.X.rows) : ult.X.rows[i][f] \in {0, Zero}

\* C1: on a predictor that holds a fitted regressor and the feature list,
\* prever on any frame with valid dates succeeds whichever of the optional
\* columns hora_media, uf, municipio and tipo_acidente the frame has; the
\* matrix it predicts from has exactly the columns of feature_names, in
\* that order, and a feature the frame cannot supply is a column of zeros.
C1_ColunasCongeladas ==
    (PreverAceito /\ EntradaValida /\ pred.modelo.fitted /\ pred.feature_names = Features)
        => /\ ult.status = "ok"
           /\ ult.X.columns = pred.feature_names
           /\ "hora_media" \notin ult.frame.cols => ColunaZero("hora_media")
           /\ \A c \in {"uf", "municipio", "tipo_acidente"} :
                  c \notin ult.frame.cols => ColunaZero(EncNome(c))

\* C3: when prever returns, the result has one value per input row and
\* every value is a non-negative integer.
C3_ContagensNaoNegativas ==
    (ult.op = "prever" /\ ult.status = "ok")
        => /\ Len(ult.resultado) = ult.linhas
           /\ ult.linhas = Len(ult.frame.rows)
           /\ \A i \in 1..Len(ult.resultado) : ult.resultado[i] \in Nat

\* prever has returned for two rows, the regressor having answered a
\* negative value for one row and a fractional value for one row.
C3_Alcancado ==
    /\ ult.op = "prever" /\ ult.status = "ok" /\ ult.linhas = 2
    /\ \E i \in 1..Len(ult.X.rows) : PredictRow(pred.modelo, ult.X.rows[i]) < 0
    /\ \E i \in 1..Len(ult.X.rows) : PredictRow(pred.modelo, ult.X.rows[i]) % Quartos # 0

\* C4: on a predictor whose trained flag is not set, prever and
\* salvar_modelo raise RuntimeError: nothing is returned, the file is not
\* written and the predictor is left as it was.
C4_NaoTreinadoRecusa ==
    [][(~pred.treinado /\ ult'.op \in {"prever", "salvar_modelo"})
          => /\ ult'.status = "RuntimeError"
             /\ ult'.resultado = <<>>
             /\ disco' = disco
             /\ pred' = pred]_vars

\* prever has been refused on a predictor that a failed treinar left with
\* encoders and a feature list but without the trained flag.
C4_Alcancado ==
    /\ ult.op = "prever" /\ ult.status = "RuntimeError"
    /\ ~pred.treinado
    /\ pred.encoders # SemEncoders
    /\ pred.feature_names # <<>>

\* The registry the last call encoded with, and the value of field c in
\* row r of its frame.
Registro == IF ult.op = "gerar" THEN gerador.encoders ELSE pred.encoders
ValorCampo(r, c) ==
    IF c = "clima" /\ "clima" \notin DOMAIN r THEN r.condicao_metereologica ELSE r[c]
TemCampo(r, c) ==
    c \in DOMAIN r \/ (c = "clima" /\ "condicao_metereologica" \in DOMAIN r)

\* C5: when the registry holds an encoder for a categorical field, the
\* encoded cell of every row is the position of the row's value in the
\* encoder's vocabulary, and the sentinel -1 for a value the vocabulary
\* does not have.
C5_SentinelaForaDoVocabulario ==
    (ult.op \in {"prever", "gerar"} /\ ult.status = "ok")
        => \A i \in 1..Len(ult.X.rows) : \A c \in SeqToSet(CatCols) :
              (c \in DOMAIN Registro /\ EncNome(c) \in SeqToSet(ult.X.columns)
                  /\ TemCampo(ult.frame.rows[i], c))
                  => \/ /\ \A k \in 1..Len(Registro[c]) :
                               Registro[c][k] # ValorCampo(ult.frame.rows[i], c)
                         /\ ult.X.rows[i][EncNome(c)] = -1
                     \/ \E k \in 1..Len(Registro[c]) :
                           /\ Registro[c][k] = ValorCampo(ult.frame.rows[i], c)
                           /\ ult.X.rows[i][EncNome(c)] = k - 1

\* The dict holds component ks under one of the names load_model reads.
Tem(d, ks) == (DOMAIN d) \cap ks # {}

\* The unpickled dict has the regressor, the encoders, the feature list,
\* the metrics and the historical series.
ArtefatoCompleto(d) ==
    /\ Tem(d, {"modelo", "model"})
    /\ Tem(d, {"encoders"})
    /\ Tem(d, {"features", "feature_names"})
    /\ Tem(d, {"r2_train"}) /\ Tem(d, {"rmse_train"})
    /\ Tem(d, {"r2_test", "r2"}) /\ Tem(d, {"rmse_test", "rmse"})
    /\ Tem(d, {"historical_df"})

\* C6: load_model on a file whose dict lacks a required component does not
\* return a predictor marked as trained.
C6_CargaParcialFatal ==
    (ult.op = "load_model" /\ disco.estado = "pickle" /\ ~ArtefatoCompleto(disco.data))
        => ~(ult.status = "ok" /\ pred.treinado)

\* C7: load_model right after salvar_modelo on a trained predictor returns
\* a predictor with the same regressor, encoders, feature list, train and
\* test metrics and historical series.
C7_IdaEVolta ==
    [][(ult.op = "salvar_modelo" /\ ult.status = "ok" /\ ult'.op = "load_model")
          => /\ ult'.status = "ok"
             /\ pred'.modelo = pred.modelo
             /\ pred'.encoders = pred.encoders
             /\ pred'.feature_names = pred.feature_names
             /\ pred'.r2_score_train = pred.r2_score_train
             /\ pred'.rmse_score_train = pred.rmse_score_train
             /\ pred'.r2_score_test = pred.r2_score_test
             /\ pred'.rmse_score_test = pred.rmse_score_test
             /\ pred'.historical_df = pred.historical_df]_vars

\* C8: prever on a predictor whose trained flag is set leaves the encoder
\* registry as it was.
C8_PreverNaoAjusta ==
    [][(pred.treinado /\ ult'.op = "prever") => pred'.encoders = pred.encoders]_vars

(***************************************************************************)
(* Properties of training                                                  *)
(***************************************************************************)

\* treinar has built the feature matrix and split it.
TreinoDividido == ult.op = "treinar" /\ ult.status \in {"ok", "FitError"}

NomesPassado == <<"lag_1", "lag_2", "lag_7", "lag_14", "media_7", "media_14",
                  "media_28", "std_7", "std_14", "std_28">>

\* The daily counts ac with another count in row i, in row i and every
\* later row, and in every row more than w rows before row i.
SoLinha(ac, i) == [j \in 1..Len(ac) |-> IF j = i THEN ac[j] + 5 ELSE ac[j]]
DesdeLinha(ac, i) == [j \in 1..Len(ac) |-> IF j >= i THEN ac[j] + 3 + j ELSE ac[j]]
AntesDaJanela(ac, i, w) == [j \in 1..Len(ac) |-> IF j < i - w THEN ac[j] + 5 ELSE ac[j]]

\* C2: the lag and rolling cells of row i of the matrix are the ones the
\* builder computes when the count of row i, or the counts of row i and of
\* all later rows, are different; and media_w of row i is the one it
\* computes when the counts more than w rows before row i are different.
C2_SemVazamento ==
    TreinoDividido
        => \A i \in 1..Len(ult.y) :
              /\ LagRoll(SoLinha(ult.y, i), i) = Restrita(ult.X.rows[i], NomesPassado)
              /\ LagRoll(DesdeLinha(ult.y, i), i) = Restrita(ult.X.rows[i], NomesPassado)
              /\ \A w \in SeqToSet(Janelas) :
                    FillNa(RollMean(RollBase(AntesDaJanela(ult.y, i, w)), w, i))
                        = ult.X.rows[i][MediaNome(w)]

\* A series of at least 30 days with three incidents on its first day has
\* been built: row 2 has lag_1 = 3, row 8 has media_7 = 9/7 and row 30,
\* whose window of 28 rows leaves the first day out, has media_28 = 1.
C2_Alcancado ==
    /\ TreinoDividido /\ Len(ult.y) >= 30
    /\ ult.y[1] = 3
    /\ ult.X.rows[2].lag_1 = <<3, 1>>
    /\ ult.X.rows[8].media_7 = <<9, 7>>
    /\ ult.X.rows[30].media_28 = <<1, 1>>

\* C9: the training slice is the first floor(0.7 n) of the n rows and the
\* test slice the remaining rows; the slices are disjoint and cover the
\* rows; every training row's date is earlier than every test row's.
C9_DivisaoCronologica ==
    TreinoDividido
        => /\ ult.treino = [i \in 1..((7 * Len(ult.X.rows)) \div 10) |-> i]
           /\ ult.teste = [i \in 1..(Len(ult.X.rows) - (7 * Len(ult.X.rows)) \div 10) |->
                               (7 * Len(ult.X.rows)) \div 10 + i]
           /\ SeqToSet(ult.treino) \cap SeqToSet(ult.teste) = {}
           /\ SeqToSet(ult.treino) \cup SeqToSet(ult.teste) = 1..Len(ult.X.rows)
           /\ \A i \in SeqToSet(ult.treino) : \A j \in SeqToSet(ult.teste) :
                  DataLess(ult.datas[i], ult.datas[j])

\* C10: after treinar every value of an encoder's vocabulary occurs in a
\* row of the training slice, and a test row whose value occurs in no
\* training row is encoded as the sentinel.
C10_VocabularioDoTreino ==
    (ult.op = "treinar" /\ ult.status = "ok")
        => \A c \in SeqToSet(CatCols) :
              /\ \A k \in 1..Len(pred.encoders[c]) :
                    \E i \in SeqToSet(ult.treino) : ult.frame.rows[i][c] = pred.encoders[c][k]
              /\ \A j \in SeqToSet(ult.teste) :
                    (\A i \in SeqToSet(ult.treino) : ult.frame.rows[i][c] # ult.frame.rows[j][c])
                        => ult.X.rows[j][EncNome(c)] = Sentinela

(***************************************************************************)
(* Properties of the weather normalizers                                   *)
(***************************************************************************)

\* C11: once both normalizers have been given the same text, the class the
\* generator's normalizer returned is the class the predictor's returned.
C11_NormalizadoresIguais ==
    (ult.op = "simplificar_clima" /\ ult.classeGerador # None)
        => ult.classeGerador = ult.classe

\* The keywords of the five rules in their priority order (rain/drizzle,
\* cloudy, clear/sun, wind, fog/mist) and the class of each rule.
PalavrasDaRegra ==
    <<{"Chuva", "Garoa"}, {"Nublado"}, {"Céu Claro", "Sol", "Bom"}, {"Vento"},
      {"Nevoeiro", "Neblina"}>>
ClasseDaRegra == <<"Chuva", "Nublado", "Bom", "Vento", "Nevoeiro/Neblina">>

TemPalavra(t, p) == \E k \in PalavrasDaRegra[p] : Contains(t, k)

\* C16: the class the predictor's normalizer returns is one of the six
\* classes; it is the class of the first rule, in priority order, one of
\* whose keywords the text contains, and Outro when the text contains no
\* keyword.
C16_PrimeiraRegra ==
    ult.op = "simplificar_clima"
        => /\ ult.classe[1] \in SeqToSet(ClasseDaRegra) \cup {"Outro"}
           /\ \A p \in 1..Len(PalavrasDaRegra) :
                 (TemPalavra(ult.texto, p) /\ \A q \in 1..(p - 1) : ~TemPalavra(ult.texto, q))
                     => ult.classe[1] = ClasseDaRegra[p]
           /\ (\A p \in 1..Len(PalavrasDaRegra) : ~TemPalavra(ult.texto, p))
                 => ult.classe[1] = "Outro"

\* A text with a clear-sky keyword before a rain keyword has been
\* normalized to the rain class.
C16_Alcancado ==
    /\ ult.op = "simplificar_clima"
    /\ ult.texto = "Sol e Chuva"
    /\ ult.classe = Some("Chuva")

(***************************************************************************)
(* Properties of the daily aggregation                                     *)
(***************************************************************************)

\* The aggregation of a file has returned.
Agregado == ult.op = "processar_dados" /\ ult.status = "ok"

\* The positions of the sequence rs whose record has date d.
DoDia(rs, d) == {i \in 1..Len(rs) : rs[i].data = d}

\* C12: the aggregated frame has one row per distinct date of the retained
\* records and no other row, its dates are strictly ascending, each row's
\* count is the number of retained records of its date, and the counts sum
\* to the number of retained records.
C12_UmaLinhaPorDia ==
    Agregado
        => /\ {ult.frame.rows[k].data : k \in 1..Len(ult.frame.rows)}
                 = {ult.retidos[i].data : i \in 1..Len(ult.retidos)}
           /\ \A k \in 1..(Len(ult.frame.rows) - 1) :
                 DataLess(ult.frame.rows[k].data, ult.frame.rows[k + 1].data)
           /\ \A k \in 1..Len(ult.frame.rows) :
                 ult.frame.rows[k].acidentes
                     = Cardinality(DoDia(ult.retidos, ult.frame.rows[k].data))
           /\ Soma(Coluna(ult.frame.rows, "acidentes")) = Len(ult.retidos)

\* A file that lists an incident of 05/01/2023 before two of 02/01/2023
\* has been aggregated into two rows, the earlier day first and no row for
\* the days between them.
C12_Alcancado ==
    /\ Agregado
    /\ Len(ult.arquivo) = 3
    /\ ParseData(ult.arquivo[1].data_inversa) = <<2023, 1, 5>>
    /\ Coluna(ult.frame.rows, "data") = <<<<2023, 1, 2>>, <<2023, 1, 5>>>>
    /\ Coluna(ult.frame.rows, "acidentes") = <<2, 1>>

\* A record the aggregation is to discard: its date or its time does not
\* parse, its year is before 2019, or one of its six fields is missing.
Descartavel(r) ==
    \/ ParseData(r.data_inversa) = NaT
    \/ ParseData(r.data_inversa)[1] < 2019
    \/ ParseHora(r.horario) = NaN
    \/ \E c \in RawCampos : r[c] = Nulo

Bons(regs) == SelectSeq(regs, LAMBDA r : ~Descartavel(r))

\* The good records of date d, and the fields of a record other than its
\* weather (which the aggregation replaces by its class).
BonsDoDia(regs, d) == SelectSeq(Bons(regs), LAMBDA r : ParseData(r.data_inversa) = d)
SemClima(rs) ==
    [i \in 1..Len(rs) |-> [c \in RawCampos \ {"condicao_metereologica"} |-> rs[i][c]]]

\* The daily row is made of the records g alone.
FeitaDe(linha, g) ==
    /\ Len(g) > 0
    /\ linha.acidentes = Len(g)
    /\ linha.hora_media = Rat(Soma([i \in 1..Len(g) |-> ParseHora(g[i].horario)]), Len(g))
    /\ \A c \in {"uf", "municipio", "tipo_acidente"} : \E i \in 1..Len(g) : linha[c] = g[i][c]
    /\ \E i \in 1..Len(g) : linha.clima = SimplificarClima(g[i].condicao_metereologica)

\* C13: the aggregation of a file with records returns; the records it
\* retains are the records of the file that are not to be discarded, in
\* the file's order; every daily row is made of the good records of its
\* date alone, and every good record's date has a row.
C13_DescarteExato ==
    (ult.op = "processar_dados" /\ ult.arquivo # <<>>)
        => /\ ult.status = "ok"
           /\ SemClima(ult.retidos) = SemClima(Bons(ult.arquivo))
           /\ \A k \in 1..Len(ult.frame.rows) :
                 FeitaDe(ult.frame.rows[k], BonsDoDia(ult.arquivo, ult.frame.rows[k].data))
           /\ \A i \in 1..Len(Bons(ult.arquivo)) :
                 \E k \in 1..Len(ult.frame.rows) :
                     ult.frame.rows[k].data = ParseData(Bons(ult.arquivo)[i].data_inversa)

\* A file with a record whose time is no time, a record whose date is no
\* date and one good record has been aggregated into the one row of the
\* good record.
C13_Alcancado ==
    /\ Agregado
    /\ \E i, j \in 1..Len(ult.arquivo) :
          /\ ult.arquivo[i].horario = "25:00:00"
          /\ ult.arquivo[j].data_inversa = "31/02/2023"
    /\ Len(ult.frame.rows) = 1
    /\ ult.frame.rows[1].data = <<2023, 1, 5>>
    /\ ult.frame.rows[1].acidentes = 1
    /\ ult.frame.rows[1].hora_media = <<12, 1>>

\* The values of categorical field c in the day's retained records, in
\* input order (the weather class is kept under the weather's name).
ValoresDoDia(c, d) ==
    Coluna(SelectSeq(ult.retidos, LAMBDA r : r.data = d),
           IF c = "clima" THEN "condicao_metereologica" ELSE c)

Vezes(vals, v) == Cardinality({i \in 1..Len(vals) : vals[i] = v})
MaisFrequente(vals, v) ==
    /\ v \in SeqToSet(vals)
    /\ \A u \in SeqToSet(vals) : Vezes(vals, u) <= Vezes(vals, v)
PrimeiraVez(vals, v) == CHOOSE i \in 1..Len(vals) : vals[i] = v /\ \A j \in 1..(i - 1) : vals[j] # v

\* C15 as the specification words it: each categorical field of a daily
\* row is a most frequent value of the field among the day's retained
\* records, and of several most frequent values it is the one met first in
\* input order.
C15_ModaPorOrdemDeEntrada ==
    Agregado
        => \A k \in 1..Len(ult.frame.rows) : \A c \in SeqToSet(CatCols) :
              /\ MaisFrequente(ValoresDoDia(c, ult.frame.rows[k].data), ult.frame.rows[k][c])
              /\ \A u \in SeqToSet(ValoresDoDia(c, ult.frame.rows[k].data)) :
                    MaisFrequente(ValoresDoDia(c, ult.frame.rows[k].data), u)
                        => PrimeiraVez(ValoresDoDia(c, ult.frame.rows[k].data), ult.frame.rows[k][c])
                               <= PrimeiraVez(ValoresDoDia(c, ult.frame.rows[k].data), u)

\* C15: each categorical field of a daily row is a most frequent value of
\* the field among the day's retained records, and of several most
\* frequent values it is the smallest in sorted order.
C15_ModaPorOrdemDoTexto ==
    Agregado
        => \A k \in 1..Len(ult.frame.rows) : \A c \in SeqToSet(CatCols) :
              /\ MaisFrequente(ValoresDoDia(c, ult.frame.rows[k].data), ult.frame.rows[k][c])
              /\ \A u \in SeqToSet(ValoresDoDia(c, ult.frame.rows[k].data)) \ {ult.frame.rows[k][c]} :
                    MaisFrequente(ValoresDoDia(c, ult.frame.rows[k].data), u)
                        => StrLess(ult.frame.rows[k][c], u)

\* A day whose first record is of SP and whose second is of PE, each state
\* once, has been aggregated into a row of PE.
C15_Alcancado ==
    /\ Agregado
    /\ Len(ult.frame.rows) = 1
    /\ ValoresDoDia("uf", ult.frame.rows[1].data) = <<"SP", "PE">>
    /\ ult.frame.rows[1].uf = "PE"

(***************************************************************************)
(* Properties of the retained series and of the trained flag               *)
(***************************************************************************)

\* The file the last treinar of the lifecycle read.
ArquivoLido == SubSeq(Ocorrencias, 1, ult.linhas)

\* After a successful treinar the flag is set and the retained series is
\* the aggregation of the file, with its seven columns; after prever the
\* caller's frame is one of the input frames as the caller built it.
SerieRetida ==
    /\ (ult.op = "treinar" /\ ult.status = "ok")
          => /\ pred.treinado
             /\ pred.historical_df # None
             /\ pred.historical_df[1].cols
                   = {"data", "acidentes", "uf", "municipio", "tipo_acidente", "clima",
                      "hora_media"}
             /\ pred.historical_df[1].rows = ProcessarDados(ArquivoLido)
    /\ ult.op = "prever" => ult.entrada \in EntradasPrever

\* C14: after a successful treinar the trained flag is set and the
\* retained series is the aggregator's output, not the frame the feature
\* builder extended; a prever call leaves the retained series as it was
\* and the caller's frame as the caller built it.
C14_SerieRetida ==
    /\ []SerieRetida
    /\ [][ult'.op = "prever" => pred'.historical_df = pred.historical_df]_vars

\* prever has answered on a predictor that retains the series of two days
\* it was trained on.
C14_Alcancado ==
    /\ ult.op = "prever"
    /\ ult.status = "ok"
    /\ pred.historical_df # None
    /\ pred.r2_score_train # None
    /\ Len(pred.historical_df[1].rows) = 2
    /\ ult.entrada.cols = PedidoCols

(***************************************************************************)
(* Properties of the lag and rolling features                              *)
(***************************************************************************)

MediaDasLinhas(y, lo, hi) == Rat(Soma(SubSeq(y, lo, hi)), hi - lo + 1)

\* C18: in the training matrix media_w and std_w are 0 in the first row;
\* in every later row i media_w is the mean of the counts of the rows
\* from w rows back (or from the first row) to the row before i; std_w is
\* 0 in the second row.
C18_MediaDosAnteriores ==
    TreinoDividido
        => \A i \in 1..Len(ult.y) : \A w \in SeqToSet(Janelas) :
              /\ i = 1 => /\ ult.X.rows[i][MediaNome(w)] = <<0, 1>>
                          /\ ult.X.rows[i][StdNome(w)] = <<"sqrt", 0, 1>>
              /\ i > 1 => ult.X.rows[i][MediaNome(w)]
                              = MediaDasLinhas(ult.y, Max2(1, i - w), i - 1)
              /\ i = 2 => ult.X.rows[i][StdNome(w)] = <<"sqrt", 0, 1>>

\* A series of at least 9 days with three incidents on its first day has
\* been built: media_7 is 3 in row 2, 9/7 in row 8 and 1 in row 9.
C18_Alcancado ==
    /\ TreinoDividido
    /\ Len(ult.y) >= 9
    /\ ult.y[1] = 3
    /\ ult.X.rows[2].media_7 = <<3, 1>>
    /\ ult.X.rows[2].std_7 = <<"sqrt", 0, 1>>
    /\ ult.X.rows[8].media_7 = <<9, 7>>
    /\ ult.X.rows[9].media_7 = <<1, 1>>

(***************************************************************************)
(* Properties of the trained flag and of retraining                        *)
(***************************************************************************)

\* A predictor whose trained flag is set has an encoder for each of the
\* four categorical fields, the full ordered feature list of 24 names and
\* a retained series.
TreinadoCompleto ==
    pred.treinado
        => /\ \A c \in SeqToSet(CatCols) : c \in DOMAIN pred.encoders
           /\ pred.feature_names = Features
           /\ Len(pred.feature_names) = 24
           /\ pred.historical_df # None

\* C19: in every state of the lifecycle a predictor whose trained flag is
\* set is complete, and a treinar call that fails does not set the flag.
C19_TreinadoCompleto ==
    /\ []TreinadoCompleto
    /\ [][(ult'.op = "treinar" /\ ult'.status # "ok") => (pred'.treinado => pred.treinado)]_vars

\* C20: after a successful treinar each encoder's vocabulary is the set of
\* the values of its field in the series that call aggregated, and no
\* categorical code of that call's matrix is the sentinel.
C20_VocabularioDaChamada ==
    (ult.op = "treinar" /\ ult.status = "ok")
        => \A c \in SeqToSet(CatCols) :
              /\ SeqToSet(pred.encoders[c]) = SeqToSet(Coluna(ult.frame.rows, c))
              /\ \A i \in 1..Len(ult.X.rows) : ult.X.rows[i][EncNome(c)] # Sentinela

(***************************************************************************)
(* Properties of the generator's weather code and of renormalizing         *)
(***************************************************************************)

\* The row the interface hands to prever for the generated record r.
PedidoDe(r) ==
    Pedido(FmtBr(ParseDataIso(r.data)), r.uf, r.municipio, r.tipo_acidente,
           r.condicao_metereologica, <<ParseHoraMinuto(r.horario), 1>>)

\* The clima_enc prever computes for it on the predictor loaded from the
\* artifact.
ClimaDePrever(r) ==
    AposPrever(Carregado(disco.data), Frame(PedidoCols, <<PedidoDe(r)>>)).ult.X.rows[1].clima_enc

\* C21: with an artifact salvar_modelo wrote, the clima_enc of every row
\* the generator builds is the code the artifact's clima encoder gives to
\* the row's normalized weather class (-1 when it has none), and it is
\* the clima_enc prever computes for the same record.
C21_ClimaDoGerador ==
    (ult.op = "gerar" /\ ult.status = "ok" /\ ArtefatoCompleto(disco.data))
        => \A i \in 1..Len(ult.X.rows) :
              /\ ult.X.rows[i].clima_enc
                    = Encode(disco.data.encoders["clima"],
                             ult.frame.rows[i].condicao_metereologica)
              /\ ult.X.rows[i].clima_enc = ClimaDePrever(ult.entrada.rows[i])

\* The six class labels.
SeisClasses == {"Chuva", "Nublado", "Bom", "Vento", "Nevoeiro/Neblina", "Outro"}

\* C22: the normalizer applied to a class label it returned gives that
\* label again, and the labels it is applied to are among the six.
C22_Idempotente ==
    ult.op = "simplificar_classe"
        => /\ ult.texto \in SeisClasses
           /\ ult.classe = Some(ult.texto)

\* The normalizer has been applied to the label of the fog class, which
\* holds one of its keywords and a slash, and has returned it.
C22_Alcancado ==
    /\ ult.op = "simplificar_classe"
    /\ ult.texto = "Nevoeiro/Neblina"
    /\ ult.classe = Some("Nevoeiro/Neblina")
====
